---- MODULE Spec2Model ----
(***************************************************************************)
(* A model of the RNA-seq analysis engine RNASeqAnalyzer                   *)
(* (src/src/utils/statisticalAnalysis.ts): the count matrix built at       *)
(* construction, the two lazily filled caches, and the batched             *)
(* differential-expression runs that suspend at their yields.              *)
(*                                                                         *)
(* Numbers.  A JavaScript number is modelled as a fixed-point integer in   *)
(* units of 1/SCALE (count domain: counts, size factors, means, variances, *)
(* t statistics, log2 fold changes) or in units of 1/PSCALE (probability   *)
(* domain: erf, normalCDF, p-values).  NaN is the distinct value NaN and   *)
(* the result of reading an absent key is the distinct value Undefined.    *)
(* Every arithmetic operator propagates NaN and every comparison with NaN  *)
(* is false, as in IEEE-754.                                               *)
(***************************************************************************)
EXTENDS Integers, Sequences, FiniteSets, TLC

\* ------------------------------------------------------------------------
\* Numbers
\* ------------------------------------------------------------------------

\* Resolution of the count domain: one unit is 1/SCALE.
SCALE == 10 * 10
\* Resolution of the probability domain: one unit is 1/PSCALE.
PSCALE == 10 * 1000

\* IEEE NaN and the JavaScript value undefined: two integers no arithmetic
\* of the model produces.
NaN == 0 - 1000000000
Undefined == 0 - 1000000001

IsNaN(x) == x = NaN
IsFinite(x) == x # NaN /\ x # Undefined

\* A whole number k as a count-domain number.
Num(k) == k * SCALE

\* a + b, a - b, a * b, a / b on count-domain numbers.
Add(a, b) == IF IsFinite(a) /\ IsFinite(b) THEN a + b ELSE NaN
Sub(a, b) == IF IsFinite(a) /\ IsFinite(b) THEN a - b ELSE NaN
Mul(a, b) == IF IsFinite(a) /\ IsFinite(b) THEN (a * b) \div SCALE ELSE NaN
\* 0/0 is NaN.  x/0 with x # 0 (Infinity) arises nowhere in the engine for
\* finite non-negative counts: every divisor is a length, a guarded value
\* or a median of positive ratios.
Div(a, b) ==
    IF IsFinite(a) /\ IsFinite(b) /\ b # 0 THEN (a * SCALE) \div b ELSE NaN
\* x / n for an array length n (a plain integer).
DivLen(a, n) == IF IsFinite(a) /\ n # 0 THEN a \div n ELSE NaN

\* Comparisons: false when either side is NaN.
Gt(a, b) == IsFinite(a) /\ IsFinite(b) /\ a > b
Lt(a, b) == IsFinite(a) /\ IsFinite(b) /\ a < b
Ge(a, b) == IsFinite(a) /\ IsFinite(b) /\ a >= b

\* Math.max / Math.min: NaN when either argument is NaN.
MathMax(a, b) == IF IsFinite(a) /\ IsFinite(b) THEN (IF a >= b THEN a ELSE b) ELSE NaN
MathMin(a, b) == IF IsFinite(a) /\ IsFinite(b) THEN (IF a <= b THEN a ELSE b) ELSE NaN
MathAbs(a) == IF IsFinite(a) THEN (IF a < 0 THEN 0 - a ELSE a) ELSE NaN

\* k-th power of a plain integer.
RECURSIVE IPow(_, _)
IPow(b, k) == IF k = 0 THEN 1 ELSE b * IPow(b, k - 1)

\* Largest r in lo..hi with r^k <= v (lo^k <= v is given).
RECURSIVE RootSearch(_, _, _, _)
RootSearch(v, k, lo, hi) ==
    IF lo >= hi THEN lo
    ELSE LET mid == (lo + hi + 1) \div 2
         IN IF IPow(mid, k) <= v THEN RootSearch(v, k, mid, hi)
            ELSE RootSearch(v, k, lo, mid - 1)

\* Math.sqrt on a count-domain number: floor(sqrt(v/SCALE) * SCALE).
MathSqrt(v) ==
    IF ~IsFinite(v) \/ v < 0 THEN NaN
    ELSE RootSearch(v * SCALE, 2, 0, 46340)

\* Math.log2 on a count-domain number x > 0, to LogBits binary digits:
\* the integer part by halving/doubling, the fraction by repeated squaring.
LogBits == 6

RECURSIVE Log2Int(_, _)
Log2Int(x, n) ==
    \* x in 1/PSCALE units; returns <<n, y>> with y in [PSCALE, 2*PSCALE)
    IF x >= 2 * PSCALE THEN Log2Int(x \div 2, n + 1)
    ELSE IF x < PSCALE THEN Log2Int(x * 2, n - 1)
    ELSE <<n, x>>

RECURSIVE Log2Frac(_, _, _)
Log2Frac(y, bits, acc) ==
    \* y in [PSCALE, 2*PSCALE); acc collects the binary digits
    IF bits = 0 THEN acc
    ELSE LET sq == (y * y) \div PSCALE
         IN IF sq >= 2 * PSCALE
            THEN Log2Frac(sq \div 2, bits - 1, 2 * acc + 1)
            ELSE Log2Frac(sq, bits - 1, 2 * acc)

MathLog2(x) ==
    IF ~IsFinite(x) \/ x <= 0 THEN NaN
    ELSE LET ny == Log2Int(x * (PSCALE \div SCALE), 0)
             frac == Log2Frac(ny[2], LogBits, 0)
         IN ny[1] * SCALE + (frac * SCALE) \div IPow(2, LogBits)

\* Math.log2(a / b) for positive a and b.  The quotient of two different
\* doubles is never 1 and the logarithm of a double other than 1 is never 0,
\* so a result that the resolution here would round to 0 is kept one unit
\* away from it, on the side of its sign.
Log2Ratio(a, b) ==
    IF ~IsFinite(a) \/ ~IsFinite(b) THEN NaN
    ELSE LET v == MathLog2(Div(a, b))
         IN IF a > b /\ v <= 0 THEN 1
            ELSE IF a < b /\ v >= 0 THEN 0 - 1
            ELSE v

\* Math.exp(-y) for a probability-domain y >= 0, by scaling and squaring:
\* exp(-y) = (exp(-y/16))^16 with a cubic Taylor polynomial for exp(-y/16).
RECURSIVE SquareTimes(_, _)
SquareTimes(v, n) ==
    IF n = 0 THEN v ELSE SquareTimes((v * v) \div PSCALE, n - 1)

ExpNeg(y) ==
    IF y >= 16 * PSCALE THEN 0
    ELSE LET z == y \div 16
             z2 == (z * z) \div PSCALE
             z3 == (z2 * z) \div PSCALE
             small == PSCALE - z + z2 \div 2 - z3 \div 6
         IN SquareTimes(small, 4)

\* ------------------------------------------------------------------------
\* Arrays
\* ------------------------------------------------------------------------

\* The one element of a singleton set.  The({e(x) : x \in {v}}) is e(v)
\* with v evaluated once, however often e uses it.
The(S) == CHOOSE x \in S : TRUE

\* arr[i] for a 1-based index; undefined outside the array.
At(arr, i) == IF i \in 1..Len(arr) THEN arr[i] ELSE Undefined

\* arr.reduce((sum, val) => sum + val, 0)
RECURSIVE SumFrom(_, _)
SumFrom(arr, i) == IF i > Len(arr) THEN 0 ELSE Add(arr[i], SumFrom(arr, i + 1))
Sum(arr) == SumFrom(arr, 1)

\* Product of plain integers.
RECURSIVE ProdFrom(_, _)
ProdFrom(arr, i) == IF i > Len(arr) THEN 1 ELSE arr[i] * ProdFrom(arr, i + 1)

\* arr.indexOf(x): the first 1-based index holding x, 0 when there is none.
IndexOf(arr, x) ==
    IF \E i \in 1..Len(arr) : arr[i] = x
    THEN CHOOSE i \in 1..Len(arr) : arr[i] = x /\ \A j \in 1..(i - 1) : arr[j] # x
    ELSE 0

\* arr.slice(from, to) with 0-based bounds, to exclusive.
Slice(arr, from, to) ==
    LET hi == IF to < Len(arr) THEN to ELSE Len(arr)
    IN IF from >= hi THEN <<>> ELSE [k \in 1..(hi - from) |-> arr[from + k]]

\* Ascending numeric sort, [...arr].sort((a, b) => a - b), of finite numbers.
SortAsc(arr) == SortSeq(arr, LAMBDA a, b : a < b)

\* ------------------------------------------------------------------------
\* The engine's pure computations
\* ------------------------------------------------------------------------

\* gene.samples[sampleName]: undefined when the key is absent.
Lookup(map, key) == IF key \in DOMAIN map THEN map[key] ELSE Undefined

\* v || 0 : 0 for undefined, NaN and 0 itself.
OrZero(v) == IF v = Undefined \/ v = NaN \/ v = 0 THEN 0 ELSE v

\* A count matrix read without the default for an absent key.
buildCountMatrixNoDefault(genes, names) ==
    [g \in 1..Len(genes) |->
        [s \in 1..Len(names) |-> Lookup(genes[g].samples, names[s])]]

buildCountMatrix(genes, names) ==
    [g \in 1..Len(genes) |->
        [s \in 1..Len(names) |-> OrZero(Lookup(genes[g].samples, names[s]))]]

\* Resolution at which exp(mean(log counts)) is evaluated.
GeoScale == 5 + 5

\* Math.exp(logSum / n) of nonZeroCounts: the n-th root of their product.
ExpMeanLog(nonZeroCounts) ==
    LET n == Len(nonZeroCounts)
        scaled == [k \in 1..n |-> (nonZeroCounts[k] * GeoScale) \div SCALE]
        prod == ProdFrom(scaled, 1)
    IN RootSearch(prod, n, 0, SortAsc(scaled)[n]) * (SCALE \div GeoScale)

calculateGeometricMeans(matrix) ==
    [g \in 1..Len(matrix) |->
        LET nonZeroCounts == SelectSeq(matrix[g], LAMBDA count : Gt(count, 0))
        IN IF Len(nonZeroCounts) = 0 THEN 0 ELSE ExpMeanLog(nonZeroCounts)]

\* A median taken without sorting.
medianUnsorted(arr) ==
    LET mid == Len(arr) \div 2
    IN IF Len(arr) % 2 = 0
       THEN DivLen(Add(At(arr, mid), At(arr, mid + 1)), 2)
       ELSE At(arr, mid + 1)

median(arr) ==
    LET sorted == SortAsc(arr)
        mid == Len(sorted) \div 2
    IN IF Len(sorted) % 2 = 0
       THEN DivLen(Add(At(sorted, mid), At(sorted, mid + 1)), 2)
       ELSE At(sorted, mid + 1)

\* Size factors taken over every ratio, the invalid ones included.
calculateSizeFactorsUnfiltered(matrix, nSamples, geometricMeans) ==
    [s \in 1..nSamples |->
        median([g \in 1..Len(matrix) |-> Div(At(matrix[g], s), geometricMeans[g])])]

calculateSizeFactors(matrix, nSamples, geometricMeans) ==
    [s \in 1..nSamples |->
        LET ratio(g) ==
                IF Gt(geometricMeans[g], 0) /\ Gt(At(matrix[g], s), 0)
                THEN <<Div(matrix[g][s], geometricMeans[g])>>
                ELSE <<>>
            RECURSIVE validRatios(_, _)
            validRatios(lo, hi) ==
                IF lo > hi THEN <<>>
                ELSE IF lo = hi THEN ratio(lo)
                ELSE validRatios(lo, (lo + hi) \div 2)
                         \o validRatios((lo + hi) \div 2 + 1, hi)
        IN median(validRatios(1, Len(matrix)))]

\* The matrix normalizeCountsDESeq2 computes when its cache is empty.
normalizeFresh(matrix, nSamples) ==
    The({ [g \in 1..Len(matrix) |->
              [s \in 1..Len(matrix[g]) |-> Div(matrix[g][s], At(sizeFactors, s))]] :
          sizeFactors \in
              { calculateSizeFactors(matrix, nSamples, geometricMeans) :
                geometricMeans \in {calculateGeometricMeans(matrix)} } })

\* 0.5, the threshold and offset of the simplified VST.
Half == SCALE \div 2

\* A transform without the threshold below one half.
vstCellNoThreshold(count) == MathLog2(Add(count, Half))

vstCell(count) == IF Lt(count, Half) THEN 0 ELSE MathLog2(Add(count, Half))

\* The matrix varianceStabilizingTransform computes from normalized counts.
vstFresh(normalizedCounts) ==
    [g \in 1..Len(normalizedCounts) |->
        [s \in 1..Len(normalizedCounts[g]) |-> vstCell(normalizedCounts[g][s])]]

calculateVariance(values) ==
    LET mean == DivLen(Sum(values), Len(values))
        squaredDiffs == [k \in 1..Len(values) |->
                            LET d == Sub(values[k], mean) IN Mul(d, d)]
    IN DivLen(Sum(squaredDiffs), Len(values))

\* ------------------------------------------------------------------------
\* p-values
\* ------------------------------------------------------------------------

\* The coefficients of erf, in units of 1/PSCALE.
ErfA1 == 2548
ErfA2 == -2845
ErfA3 == 14214
ErfA4 == -14532
ErfA5 == 10614
ErfP == 3276

\* erf(x) for a probability-domain x.  Where exp(-x*x) is 0 at this
\* resolution the product it scales is 0 and y is 1.
erf(x) ==
    IF ~IsFinite(x) THEN NaN
    ELSE LET sign == IF x >= 0 THEN 1 ELSE 0 - 1
             ax == IF x >= 0 THEN x ELSE 0 - x
         IN IF ax >= 4 * PSCALE THEN sign * PSCALE
            ELSE LET t == (PSCALE * PSCALE) \div (PSCALE + (ErfP * ax) \div PSCALE)
                     h1 == (ErfA5 * t) \div PSCALE + ErfA4
                     h2 == (h1 * t) \div PSCALE + ErfA3
                     h3 == (h2 * t) \div PSCALE + ErfA2
                     h4 == (h3 * t) \div PSCALE + ErfA1
                     poly == (h4 * t) \div PSCALE
                     y == PSCALE - (poly * ExpNeg((ax * ax) \div PSCALE)) \div PSCALE
                 IN sign * y

\* Math.sqrt(2), in thousandths.
Sqrt2Milli == 1414

\* normalCDF(x) for a count-domain x: 0.5 * (1 + erf(x / sqrt 2)), a
\* probability-domain number.
normalCDF(x) ==
    IF ~IsFinite(x) THEN NaN
    ELSE LET arg == ((x * 1000) \div Sqrt2Milli) * (PSCALE \div SCALE)
             e == erf(arg)
         IN (PSCALE + e) \div 2

\* 0.001, the floor of a p-value.
PFloor == PSCALE \div 1000

\* A one-sided test statistic: a negative mean1 - mean2 counts as no
\* difference.
calculatePValueSigned(group1, group2) ==
    LET mean1 == DivLen(Sum(group1), Len(group1))
        mean2 == DivLen(Sum(group2), Len(group2))
        var1 == calculateVariance(group1)
        var2 == calculateVariance(group2)
        pooledSE == MathSqrt(Add(DivLen(var1, Len(group1)), DivLen(var2, Len(group2))))
    IN IF pooledSE = 0 THEN PSCALE
       ELSE LET tStat == IF IsFinite(Sub(mean1, mean2)) /\ Sub(mean1, mean2) < 0
                         THEN 0
                         ELSE Div(Sub(mean1, mean2), pooledSE)
                cdf == normalCDF(tStat)
            IN IF IsFinite(cdf) THEN MathMax(PFloor, 2 * (PSCALE - cdf)) ELSE NaN

calculatePValue(group1, group2) ==
    LET mean1 == DivLen(Sum(group1), Len(group1))
        mean2 == DivLen(Sum(group2), Len(group2))
        var1 == calculateVariance(group1)
        var2 == calculateVariance(group2)
        pooledSE == MathSqrt(Add(DivLen(var1, Len(group1)), DivLen(var2, Len(group2))))
    IN IF pooledSE = 0 THEN PSCALE
       ELSE LET tStat == Div(MathAbs(Sub(mean1, mean2)), pooledSE)
                cdf == normalCDF(tStat)
            IN IF IsFinite(cdf) THEN MathMax(PFloor, 2 * (PSCALE - cdf)) ELSE NaN

\* An adjustment without the cap at 1.
adjustPValueUncapped(pValue) ==
    IF IsFinite(pValue) THEN (pValue * 11) \div 10 ELSE NaN

\* Math.min(1.0, pValue * 1.1)
adjustPValue(pValue) ==
    IF IsFinite(pValue) THEN MathMin(PSCALE, (pValue * 11) \div 10) ELSE NaN

\* ------------------------------------------------------------------------
\* Differential expression of one gene
\* ------------------------------------------------------------------------

\* this.samples.filter(s => groupingFunction(s) === value); a grouping
\* function reads one trait of the sample.
groupSamples(allSamples, trait, value) ==
    SelectSeq(allSamples, LAMBDA s : s[trait] = value)

\* 0.1, the floor of a group mean before the logarithm.
MeanFloor == SCALE \div 10

\* The body of batch.map: the result record of gene geneIndex.
\* A gene result whose fold change is that of group 1 over group 2.
geneResultInverted(gene, geneIndex, normalizedCounts, names, group1Samples, group2Samples) ==
    LET counts(group) ==
            [k \in 1..Len(group) |->
                At(normalizedCounts[geneIndex], IndexOf(names, group[k].name))]
        group1Counts == counts(group1Samples)
        group2Counts == counts(group2Samples)
        mean1 == DivLen(Sum(group1Counts), Len(group1Counts))
        mean2 == DivLen(Sum(group2Counts), Len(group2Counts))
        pValue == calculatePValue(group1Counts, group2Counts)
    IN [geneName |-> gene.geneName,
        samples |-> gene.samples,
        log2FoldChange |-> Log2Ratio(MathMax(mean1, MeanFloor), MathMax(mean2, MeanFloor)),
        pValue |-> pValue,
        adjustedPValue |-> adjustPValue(pValue)]

geneResult(gene, geneIndex, normalizedCounts, names, group1Samples, group2Samples) ==
    LET counts(group) ==
            [k \in 1..Len(group) |->
                At(normalizedCounts[geneIndex], IndexOf(names, group[k].name))]
        group1Counts == counts(group1Samples)
        group2Counts == counts(group2Samples)
        mean1 == DivLen(Sum(group1Counts), Len(group1Counts))
        mean2 == DivLen(Sum(group2Counts), Len(group2Counts))
        adjustedMean1 == MathMax(mean1, MeanFloor)
        adjustedMean2 == MathMax(mean2, MeanFloor)
        log2FoldChange == Log2Ratio(adjustedMean2, adjustedMean1)
        pValue == calculatePValue(group1Counts, group2Counts)
    IN [geneName |-> gene.geneName,
        samples |-> gene.samples,
        log2FoldChange |-> log2FoldChange,
        pValue |-> pValue,
        adjustedPValue |-> adjustPValue(pValue)]

\* ------------------------------------------------------------------------
\* Inputs
\* ------------------------------------------------------------------------

\* Most samples, largest count and most concurrent runs of the model.
MaxSamples == 3
MaxCount == 2
MaxRuns == 2

SampleNamePool == <<"s1", "s2", "s3", "s4", "s5", "s6">>
Conditions == {"Control", "Treatment"}

\* The sample list: names in order, a condition each, batches alternating.
MakeSamples(n, cond) ==
    [k \in 1..n |-> [name |-> SampleNamePool[k],
                     condition |-> cond[k],
                     batch |-> IF k % 2 = 1 THEN "A" ELSE "B"]]

\* Count maps are enumerated by a code: digit s (base MaxCount + 2) of the
\* code is the count of sample s, the largest digit meaning that the gene's
\* map has no key for the sample.
CountBase == MaxCount + 2
RowDigit(code, s) == (code \div IPow(CountBase, s - 1)) % CountBase
RowMap(code, n) ==
    LET keys == {k \in 1..n : RowDigit(code, k) # CountBase - 1}
    IN [name \in {SampleNamePool[k] : k \in keys} |->
           Num(RowDigit(code, CHOOSE k \in keys : SampleNamePool[k] = name))]

\* Gene g of a dataset takes the code first + (g - 1) * GeneStride.
GeneStride == 7
GeneNamePool == <<"geneA", "geneB", "geneC", "geneD", "geneE">>
MakeGenes(n, count, first) ==
    [g \in 1..count |->
        [geneName |-> GeneNamePool[((g - 1) % Len(GeneNamePool)) + 1],
         samples |-> RowMap((first + (g - 1) * GeneStride) % IPow(CountBase, n), n)]]

\* The contrasts a caller asks for: a trait read by the grouping function
\* and the two target values.
Contrasts ==
    {[trait |-> "condition", group1 |-> "Control", group2 |-> "Treatment"],
     [trait |-> "condition", group1 |-> "Treatment", group2 |-> "Control"],
     [trait |-> "condition", group1 |-> "Control", group2 |-> "Unknown"],
     [trait |-> "batch", group1 |-> "A", group2 |-> "B"]}

Methods == {"performDifferentialExpression", "performDifferentialExpressionAsync"}

\* ------------------------------------------------------------------------
\* State
\* ------------------------------------------------------------------------

VARIABLES
    samples,                \* this.samples
    geneExpression,         \* this.geneExpression
    countMatrix,            \* this.countMatrix
    geneNames,              \* this.geneNames
    sampleNames,            \* this.sampleNames
    normalizedCountsCache,  \* this.normalizedCountsCache
    vstDataCache,           \* this.vstDataCache
    runs,                   \* the differential-expression calls and their promises
    lastCall,               \* the last synchronous public call and what it returned
    analysisResults         \* the AnalysisResults component that drives analyzers

vars == <<samples, geneExpression, countMatrix, geneNames, sampleNames,
          normalizedCountsCache, vstDataCache, runs, lastCall, analysisResults>>

engineInputs == <<samples, geneExpression, countMatrix, geneNames, sampleNames>>

\* null for currentContrast.
NoContrast == [trait |-> "none", group1 |-> "none", group2 |-> "none"]

\* No point array delivered yet.
NoData == [by |-> 0, data |-> <<>>]

\* The component before it is rendered: the useState initial values of
\* AnalysisResults and of the Dashboard state it is fed from.
NoComponent ==
    [mounted |-> FALSE,
     dataset |-> 0,
     currentContrast |-> NoContrast,
     analyzers |-> <<>>,
     analyzer |-> 0,
     analysisComplete |-> FALSE,
     error |-> FALSE,
     requests |-> <<>>,
     timers |-> <<>>,
     pcaBy |-> 0,
     volcanoData |-> NoData,
     maData |-> NoData]

\* A cache field: null, or a matrix (which may be the empty array).
NullCache == [isNull |-> TRUE, value |-> <<>>]
Filled(matrix) == [isNull |-> FALSE, value |-> matrix]

NoError == [text |-> "", sizes |-> <<>>]

IdleRun ==
    [status |-> "idle", method |-> "none",
     trait |-> "none", group1Value |-> "none", group2Value |-> "none",
     group1Samples |-> <<>>, group2Samples |-> <<>>,
     normalizedCounts |-> <<>>, i |-> 0,
     hasResults |-> FALSE, results |-> <<>>, error |-> NoError,
     plot |-> "none", outcome |-> "none", points |-> <<>>]

\* The state the constructor leaves.
constructed(sampleList, geneList, nRuns) ==
    /\ samples = sampleList
    /\ geneExpression = geneList
    /\ sampleNames = [k \in 1..Len(sampleList) |-> sampleList[k].name]
    /\ geneNames = [g \in 1..Len(geneList) |-> geneList[g].geneName]
    /\ countMatrix = buildCountMatrix(geneList, [k \in 1..Len(sampleList) |-> sampleList[k].name])
    /\ normalizedCountsCache = NullCache
    /\ vstDataCache = NullCache
    /\ runs = [r \in 1..nRuns |-> IdleRun]
    /\ lastCall = [op |-> "constructor", ret |-> <<>>]
    /\ analysisResults = NoComponent

\* ------------------------------------------------------------------------
\* Synchronous public operations
\* ------------------------------------------------------------------------

\* What normalizeCountsDESeq2 returns, and leaves in its cache, from a
\* given cache state.
normalizeCountsDESeq2(cache) ==
    IF ~cache.isNull THEN cache.value
    ELSE normalizeFresh(countMatrix, Len(samples))

\* What varianceStabilizingTransform returns from given cache states.
varianceStabilizingTransform(vstCache, normCache) ==
    IF ~vstCache.isNull THEN vstCache.value
    ELSE vstFresh(normalizeCountsDESeq2(normCache))

\* A clearing that empties the normalized matrix and keeps the transform.
ClearCachesNormalizedOnly ==
    /\ normalizedCountsCache' = NullCache
    /\ lastCall' = [op |-> "clearCaches", ret |-> <<>>]
    /\ UNCHANGED <<engineInputs, analysisResults, vstDataCache, runs>>

ClearCaches ==
    /\ normalizedCountsCache' = NullCache
    /\ vstDataCache' = NullCache
    /\ lastCall' = [op |-> "clearCaches", ret |-> <<>>]
    /\ UNCHANGED <<engineInputs, analysisResults, runs>>

NormalizeCountsDESeq2 ==
    \E normalizedCounts \in {normalizeCountsDESeq2(normalizedCountsCache)} :
        /\ normalizedCountsCache' = Filled(normalizedCounts)
        /\ lastCall' = [op |-> "normalizeCountsDESeq2", ret |-> normalizedCounts]
        /\ UNCHANGED <<engineInputs, analysisResults, vstDataCache, runs>>

VarianceStabilizingTransform ==
    \E vstData \in {varianceStabilizingTransform(vstDataCache, normalizedCountsCache)} :
        /\ vstDataCache' = Filled(vstData)
        /\ normalizedCountsCache' =
               IF vstDataCache.isNull
               THEN Filled(normalizeCountsDESeq2(normalizedCountsCache))
               ELSE normalizedCountsCache
        /\ lastCall' = [op |-> "varianceStabilizingTransform", ret |-> vstData]
        /\ UNCHANGED <<engineInputs, analysisResults, runs>>

\* Math.min(1000, vstData.length) genes at most enter the decomposition.
PcaMaxGenes == 1000

\* arr.sort((a, b) => b.variance - a.variance): stable, descending.  Each
\* element goes to the place after those of larger variance and the earlier
\* ones of equal variance.
sortByVarianceDesc(arr) ==
    The({ [p \in 1..Len(arr) |-> arr[CHOOSE k \in 1..Len(arr) : place[k] = p]] :
          place \in {[k \in 1..Len(arr) |->
                         1 + Cardinality({ j \in 1..Len(arr) :
                                 \/ arr[j].variance > arr[k].variance
                                 \/ arr[j].variance = arr[k].variance /\ j < k })]} })

\* A selection that ranks every gene, those of zero variance too.
topVariableGenesUnfiltered(vstData) ==
    LET maxGenes == IF Len(vstData) < PcaMaxGenes THEN Len(vstData) ELSE PcaMaxGenes
        all == [g \in 1..Len(vstData) |->
                   [index |-> g, variance |-> calculateVariance(vstData[g])]]
    IN Slice(sortByVarianceDesc(all), 0, maxGenes)

\* The genes performPCA keeps: positive variance, ranked, the first maxGenes.
topVariableGenes(vstData) ==
    LET maxGenes == IF Len(vstData) < PcaMaxGenes THEN Len(vstData) ELSE PcaMaxGenes
        all == [g \in 1..Len(vstData) |->
                   [index |-> g, variance |-> calculateVariance(vstData[g])]]
        geneVariances == SelectSeq(all, LAMBDA gene : Gt(gene.variance, 0))
    IN Slice(sortByVarianceDesc(geneVariances), 0, maxGenes)

transposeMatrix(matrix) ==
    IF Len(matrix) = 0 THEN <<>>
    ELSE [c \in 1..Len(matrix[1]) |-> [r \in 1..Len(matrix) |-> matrix[r][c]]]

getConditionColor(condition) ==
    CASE condition = "Control" -> "#2563EB"
      [] condition \in {"Treatment", "Treated"} -> "#F97316"
      [] condition \in {"Case", "Disease"} -> "#DC2626"
      [] condition = "Healthy" -> "#059669"
      [] OTHER -> "#6B7280"

PcaPointSize == 6

\* pcaResult.get(index, component): the score the decomposition library
\* gives row `index` of the matrix it was handed, kept as a term.
score(index, component) == [row |-> index, component |-> component]

\* new Matrix(transposedData), new PCA(matrix), pca.predict(matrix) and
\* pcaResult.get(index, 0): the projection has the rows of the matrix it was
\* handed, so for a matrix without rows there is no row `index` to read and
\* the call ends in an exception at the latest when the first sample's score
\* is read.
decompositionThrows(transposedData, sampleList) ==
    Len(transposedData) = 0 /\ Len(sampleList) > 0

\* this.samples.map((sample, index) => ...)
pcaPoints(sampleList, filteredData) ==
    [i \in 1..Len(sampleList) |->
        [x |-> score(i - 1, 0),
         y |-> score(i - 1, 1),
         label |-> sampleList[i].name,
         color |-> getConditionColor(sampleList[i].condition),
         size |-> PcaPointSize,
         metadata |-> sampleList[i]]]

\* What performPCA builds from the transform: the rows it keeps, the matrix
\* it hands to the decomposition, the points it returns.
pcaReturn(vstData, top) ==
    The({ [op |-> "performPCA",
           outcome |-> IF decompositionThrows(transposeMatrix(filteredData), samples)
                       THEN "threw" ELSE "returned",
           topVariableGenes |-> top,
           ret |-> filteredData,
           transposedData |-> transposeMatrix(filteredData),
           pcaData |-> IF decompositionThrows(transposeMatrix(filteredData), samples)
                       THEN <<>> ELSE pcaPoints(samples, filteredData)] :
          filteredData \in {[k \in 1..Len(top) |-> vstData[top[k].index]]} })

\* A decomposition that keeps the filtered rows as the transform's cache.
PerformPCACachingFiltered ==
    \E vstData \in {varianceStabilizingTransform(vstDataCache, normalizedCountsCache)} :
        \E top \in {topVariableGenes(vstData)} :
            /\ vstDataCache' = Filled([k \in 1..Len(top) |-> vstData[top[k].index]])
            /\ normalizedCountsCache' =
                   IF vstDataCache.isNull
                   THEN Filled(normalizeCountsDESeq2(normalizedCountsCache))
                   ELSE normalizedCountsCache
            /\ lastCall' = [op |-> "performPCA",
                            ret |-> [k \in 1..Len(top) |-> vstData[top[k].index]]]
            /\ UNCHANGED <<engineInputs, analysisResults, runs>>

\* A decomposition that ranks the engine's own rows and names in place.
PerformPCASortingInPlace ==
    \E vstData \in {varianceStabilizingTransform(vstDataCache, normalizedCountsCache)} :
        \E ranked \in {sortByVarianceDesc(
                           [g \in 1..Len(vstData) |->
                               [index |-> g,
                                variance |-> OrZero(calculateVariance(vstData[g]))]])} :
            /\ countMatrix' = [k \in 1..Len(ranked) |-> countMatrix[ranked[k].index]]
            /\ geneNames' = [k \in 1..Len(ranked) |-> geneNames[ranked[k].index]]
            /\ vstDataCache' = Filled(vstData)
            /\ normalizedCountsCache' =
                   IF vstDataCache.isNull
                   THEN Filled(normalizeCountsDESeq2(normalizedCountsCache))
                   ELSE normalizedCountsCache
            /\ lastCall' = [op |-> "performPCA", ret |-> vstData]
            /\ UNCHANGED <<samples, geneExpression, sampleNames, runs, analysisResults>>

\* performPCA: its effect on the engine is that of the transform it starts
\* with; the decomposition itself works on copies.
PerformPCA ==
    \E vstData \in {varianceStabilizingTransform(vstDataCache, normalizedCountsCache)} :
        \E top \in {topVariableGenes(vstData)} :
            /\ vstDataCache' = Filled(vstData)
            /\ normalizedCountsCache' =
                   IF vstDataCache.isNull
                   THEN Filled(normalizeCountsDESeq2(normalizedCountsCache))
                   ELSE normalizedCountsCache
            /\ lastCall' = pcaReturn(vstData, top)
            /\ UNCHANGED <<engineInputs, analysisResults, runs>>

\* ------------------------------------------------------------------------
\* Differential-expression runs
\* ------------------------------------------------------------------------

\* Batch sizes of the two methods, and the batches after which the first
\* method yields (i % (batchSize * 5) === 0).
BatchSizeSync == 100
BatchSizeAsync == 50
YieldEvery == 5

batchSize(method) ==
    IF method = "performDifferentialExpression" THEN BatchSizeSync ELSE BatchSizeAsync

\* A loop that awaits a timer only after every tenth batch.
yieldsAfterEveryTenth(method, i) ==
    IF method = "performDifferentialExpression"
    THEN i % (BatchSizeSync * 10) = 0
    ELSE i % (BatchSizeAsync * 10) = 0

\* Whether the loop awaits a timer after the batch that starts at gene i.
yieldsAfter(method, i) ==
    IF method = "performDifferentialExpression"
    THEN i % (BatchSizeSync * YieldEvery) = 0
    ELSE TRUE

GroupError == [text |-> "Both conditions must have at least one sample", sizes |-> <<>>]

\* Batches that index the normalized matrix by position within the batch.
batchResultsLocalIndex(run, i) ==
    LET batch == Slice(geneExpression, i, i + batchSize(run.method))
    IN [b \in 1..Len(batch) |->
           geneResult(batch[b], b, run.normalizedCounts, sampleNames,
                      run.group1Samples, run.group2Samples)]

\* batch.map(...) for the batch that starts at gene i (0-based).
batchResults(run, i) ==
    LET batch == Slice(geneExpression, i, i + batchSize(run.method))
    IN [b \in 1..Len(batch) |->
           geneResult(batch[b], i + b, run.normalizedCounts, sampleNames,
                      run.group1Samples, run.group2Samples)]

\* The for loop from gene i on, up to its next await or its end.
RECURSIVE runLoop(_, _, _)
runLoop(run, i, results) ==
    IF i >= Len(geneExpression)
    THEN [run EXCEPT !.status = "resolved", !.i = i, !.results = results]
    ELSE The({ IF yieldsAfter(run.method, i)
               THEN [run EXCEPT !.status = "suspended", !.i = i, !.results = pushed]
               ELSE runLoop(run, i + batchSize(run.method), pushed) :
               pushed \in {results \o batchResults(run, i)} })

\* A call that takes over the groups of the first call that got results.
startRunKeepingGroups(method, contrast, cache) ==
    LET earlier == { q \in DOMAIN runs : runs[q].hasResults }
        own1 == groupSamples(samples, contrast.trait, contrast.group1)
        own2 == groupSamples(samples, contrast.trait, contrast.group2)
        group1Samples == IF earlier = {} THEN own1
                         ELSE runs[CHOOSE q \in earlier : \A p \in earlier : q <= p].group1Samples
        group2Samples == IF earlier = {} THEN own2
                         ELSE runs[CHOOSE q \in earlier : \A p \in earlier : q <= p].group2Samples
        called == [IdleRun EXCEPT !.method = method,
                                  !.trait = contrast.trait,
                                  !.group1Value = contrast.group1,
                                  !.group2Value = contrast.group2,
                                  !.group1Samples = group1Samples,
                                  !.group2Samples = group2Samples]
    IN IF Len(own1) = 0 \/ Len(own2) = 0
       THEN [called EXCEPT !.status = "rejected", !.error = GroupError]
       ELSE The({ runLoop(passed, 0, <<>>) :
                  passed \in {[called EXCEPT
                                  !.normalizedCounts = normalizeCountsDESeq2(cache),
                                  !.hasResults = TRUE]} })

\* The call, up to its first await: the group check, the normalized matrix,
\* the first batches.
startRun(method, contrast, cache) ==
    LET group1Samples == groupSamples(samples, contrast.trait, contrast.group1)
        group2Samples == groupSamples(samples, contrast.trait, contrast.group2)
        called == [IdleRun EXCEPT !.method = method,
                                  !.trait = contrast.trait,
                                  !.group1Value = contrast.group1,
                                  !.group2Value = contrast.group2,
                                  !.group1Samples = group1Samples,
                                  !.group2Samples = group2Samples]
    IN IF Len(group1Samples) = 0 \/ Len(group2Samples) = 0
       THEN [called EXCEPT !.status = "rejected", !.error = GroupError]
       ELSE The({ runLoop(passed, 0, <<>>) :
                  passed \in {[called EXCEPT
                                  !.normalizedCounts = normalizeCountsDESeq2(cache),
                                  !.hasResults = TRUE]} })

\* Run slots are taken in order.
canStart(r) == runs[r].status = "idle" /\ \A q \in 1..(r - 1) : runs[q].status # "idle"

\* A call that normalizes before it checks the groups.
DEStartNormalizingFirst(r, method, contrast) ==
    /\ canStart(r)
    /\ \E run \in {startRun(method, contrast, normalizedCountsCache)} :
          /\ runs' = [runs EXCEPT ![r] = run]
          /\ normalizedCountsCache' = Filled(normalizeCountsDESeq2(normalizedCountsCache))
    /\ UNCHANGED <<engineInputs, analysisResults, vstDataCache, lastCall>>

DEStart(r, method, contrast) ==
    /\ canStart(r)
    /\ \E run \in {startRun(method, contrast, normalizedCountsCache)} :
          /\ runs' = [runs EXCEPT ![r] = run]
          /\ normalizedCountsCache' =
                 IF run.status = "rejected" THEN normalizedCountsCache
                 ELSE Filled(run.normalizedCounts)
    /\ UNCHANGED <<engineInputs, analysisResults, vstDataCache, lastCall>>

\* A run that goes on only while the engine still holds the normalized
\* matrix.
DEResumeNeedingCache(r) ==
    /\ runs[r].status = "suspended"
    /\ runs[r].plot = "none"
    /\ ~normalizedCountsCache.isNull
    /\ \E run \in {runs[r]} :
          runs' = [runs EXCEPT ![r] =
                      runLoop(run, run.i + batchSize(run.method), run.results)]
    /\ UNCHANGED <<engineInputs, analysisResults, normalizedCountsCache, vstDataCache, lastCall>>

\* The timer of a suspended run fires: the loop goes on from the next batch.
DEResume(r) ==
    /\ runs[r].status = "suspended"
    /\ runs[r].plot = "none"
    /\ \E run \in {runs[r]} :
          runs' = [runs EXCEPT ![r] =
                      runLoop(run, run.i + batchSize(run.method), run.results)]
    /\ UNCHANGED <<engineInputs, analysisResults, normalizedCountsCache, vstDataCache, lastCall>>

\* ------------------------------------------------------------------------
\* Plot generation
\* ------------------------------------------------------------------------

AsyncPlots == {"generateVolcanoPlotAsync", "generateMAPlotAsync"}
SyncPlots == {"generateVolcanoPlot", "generateMAPlot"}
MAPlots == {"generateMAPlotAsync", "generateMAPlot"}

\* The differential-expression method a plot generator calls.
plotCalls(plot) ==
    IF plot \in AsyncPlots THEN "performDifferentialExpressionAsync"
    ELSE "performDifferentialExpression"

\* gene.pValue || 1 and gene.adjustedPValue || 1
OrOne(p) == IF p = Undefined \/ p = NaN \/ p = 0 THEN PSCALE ELSE p

Log2Of10Milli == 3322

\* -Math.log10(p) of a probability p > 0, in count-domain units.
NegLog10(p) ==
    LET ny == Log2Int(p, 0)
        log2p == ny[1] * SCALE + (Log2Frac(ny[2], LogBits, 0) * SCALE) \div IPow(2, LogBits)
    IN ((0 - log2p) * 1000) \div Log2Of10Milli

FcThreshold == SCALE
PThreshold == (5 * PSCALE) \div 100

\* A colour rule with a strict fold-change threshold.
getVolcanoColorStrict(log2FC, adjPValue) ==
    IF Gt(MathAbs(log2FC), FcThreshold) /\ Lt(adjPValue, PThreshold)
    THEN (IF log2FC > 0 THEN "#F97316" ELSE "#2563EB")
    ELSE "#6B7280"

getVolcanoColor(log2FC, adjPValue) ==
    IF Ge(MathAbs(log2FC), FcThreshold) /\ Lt(adjPValue, PThreshold)
    THEN (IF log2FC > 0 THEN "#F97316" ELSE "#2563EB")
    ELSE "#6B7280"

PointSize == 4

volcanoPoint(gene) ==
    [x |-> OrZero(gene.log2FoldChange),
     y |-> NegLog10(MathMax(OrOne(gene.pValue), 1)),
     label |-> gene.geneName,
     color |-> getVolcanoColor(OrZero(gene.log2FoldChange), OrOne(gene.adjustedPValue)),
     size |-> PointSize,
     metadata |-> gene]

maPoint(gene, geneIndex, normalizedCounts) ==
    LET counts == normalizedCounts[geneIndex]
    IN [x |-> MathLog2(Add(DivLen(Sum(counts), Len(counts)), Num(1))),
        y |-> OrZero(gene.log2FoldChange),
        label |-> gene.geneName,
        color |-> getVolcanoColor(OrZero(gene.log2FoldChange), OrOne(gene.adjustedPValue)),
        size |-> PointSize,
        metadata |-> gene]

MapError == [text |-> "deResults.map is not a function", sizes |-> <<>>]

\* A generator that, finding the cache empty when its run resolves, maps over
\* the count matrix.
plotAwaitRawCounts(run, cache) ==
    IF run.status = "suspended" THEN [run EXCEPT !.outcome = "pending"]
    ELSE IF run.status = "rejected" THEN [run EXCEPT !.outcome = "rejected"]
    ELSE The({ [run EXCEPT
                   !.outcome = "resolved",
                   !.points = [g \in 1..Len(run.results) |->
                                  IF run.plot \in MAPlots
                                  THEN maPoint(run.results[g], g, normalizedCounts)
                                  ELSE volcanoPoint(run.results[g])]] :
               normalizedCounts \in {IF cache.isNull THEN countMatrix ELSE cache.value} })

\* What follows the differential-expression call inside an asynchronous
\* generator: it awaits the run and maps its results, the MA plot over the
\* normalized matrix of that moment.
plotAwait(run, cache) ==
    IF run.status = "suspended" THEN [run EXCEPT !.outcome = "pending"]
    ELSE IF run.status = "rejected" THEN [run EXCEPT !.outcome = "rejected"]
    ELSE The({ [run EXCEPT
                   !.outcome = "resolved",
                   !.points = [g \in 1..Len(run.results) |->
                                  IF run.plot \in MAPlots
                                  THEN maPoint(run.results[g], g, normalizedCounts)
                                  ELSE volcanoPoint(run.results[g])]] :
               normalizedCounts \in {normalizeCountsDESeq2(cache)} })

\* Inside a synchronous generator: deResults is the promise, so .map throws
\* and the run the generator started goes on by itself.
plotThrow(run) == [run EXCEPT !.outcome = "threw", !.error = MapError]

plotSettle(run, cache) ==
    IF run.plot \in SyncPlots THEN plotThrow(run) ELSE plotAwait(run, cache)

\* The cache after the generator's own code: generateMAPlot normalizes
\* before it maps, generateMAPlotAsync once it holds the results.
plotCache(run, cache) ==
    IF \/ run.plot = "generateMAPlot"
       \/ run.plot = "generateMAPlotAsync" /\ run.outcome = "resolved"
    THEN Filled(normalizeCountsDESeq2(cache))
    ELSE cache

PlotStart(r, plot, contrast) ==
    /\ canStart(r)
    /\ \E started \in {startRun(plotCalls(plot), contrast, normalizedCountsCache)} :
       \E cache \in {IF started.status = "rejected" THEN normalizedCountsCache
                     ELSE Filled(started.normalizedCounts)} :
       \E run \in {plotSettle([started EXCEPT !.plot = plot], cache)} :
          /\ runs' = [runs EXCEPT ![r] = run]
          /\ normalizedCountsCache' = plotCache(run, cache)
    /\ UNCHANGED <<engineInputs, analysisResults, vstDataCache, lastCall>>

\* The timer of a generator's run fires; when the run resolves, an awaiting
\* generator goes on in the same turn.
PlotResume(r) ==
    /\ runs[r].status = "suspended"
    /\ runs[r].plot # "none"
    /\ \E resumed \in {runLoop(runs[r], runs[r].i + batchSize(runs[r].method),
                               runs[r].results)} :
       \E run \in {IF resumed.plot \in SyncPlots THEN resumed
                   ELSE plotAwait(resumed, normalizedCountsCache)} :
          /\ runs' = [runs EXCEPT ![r] = run]
          /\ normalizedCountsCache' =
                 IF run.plot \in SyncPlots THEN normalizedCountsCache
                 ELSE plotCache(run, normalizedCountsCache)
    /\ UNCHANGED <<engineInputs, analysisResults, vstDataCache, lastCall>>

\* ------------------------------------------------------------------------
\* Specifications
\* ------------------------------------------------------------------------

\* Most genes of a small dataset, and the codes its first gene is drawn
\* from: FirstCodes for the runs that interleave, 0..MaxFirst for the
\* computations on one dataset.
MaxGenes == 2
MaxFirst == 15
FirstCodes == {6, 25}

\* The first c samples are controls, the others treated.
SplitConds(n) ==
    {[k \in 1..n |-> IF k <= c THEN "Control" ELSE "Treatment"] : c \in 0..n}

Init ==
    \E count \in 0..MaxGenes, first \in FirstCodes :
        \E cond \in SplitConds(MaxSamples) :
            constructed(MakeSamples(MaxSamples, cond),
                        MakeGenes(MaxSamples, count, first), MaxRuns)

Next ==
    \/ NormalizeCountsDESeq2
    \/ VarianceStabilizingTransform
    \/ PerformPCA
    \/ ClearCaches
    \/ \E r \in DOMAIN runs, method \in Methods, contrast \in Contrasts :
           DEStart(r, method, contrast)
    \/ \E r \in DOMAIN runs : DEResume(r)

Spec == Init /\ [][Next]_vars

\* One dataset at a time, one call: the inputs range over every sample
\* count up to MaxSamples and the count maps coded 0..MaxFirst.
InitData ==
    \E n \in 1..MaxSamples, count \in 0..MaxGenes, first \in 0..MaxFirst :
        \E cond \in SplitConds(n) :
            constructed(MakeSamples(n, cond), MakeGenes(n, count, first), 1)

SpecData == InitData /\ [][Next]_vars

\* Gene lists around the batch sizes.
BatchGeneCounts == {0, 1, 50, 101}

InitBatch ==
    \E count \in BatchGeneCounts, first \in FirstCodes :
        \E cond \in SplitConds(MaxSamples) :
            constructed(MakeSamples(MaxSamples, cond),
                        MakeGenes(MaxSamples, count, first), 1)

SpecBatch == InitBatch /\ [][Next]_vars

\* A gene list long enough for the loop of performDifferentialExpression to
\* reach its second timer and go on past it.
LongGeneCount == BatchSizeSync * YieldEvery + BatchSizeSync + 1

InitLong ==
    \E first \in FirstCodes :
        \E cond \in {[k \in 1..MaxSamples |-> IF k = 1 THEN "Control" ELSE "Treatment"]} :
            constructed(MakeSamples(MaxSamples, cond),
                        MakeGenes(MaxSamples, LongGeneCount, first), MaxRuns)

NextLong ==
    \/ \E r \in DOMAIN runs, method \in Methods, contrast \in Contrasts :
           DEStart(r, method, contrast)
    \/ \E r \in DOMAIN runs : DEResume(r)

SpecLong == InitLong /\ [][NextLong]_vars

\* The engine with its plot generators.
InitPlot ==
    \E first \in FirstCodes :
        \E cond \in SplitConds(MaxSamples) :
            constructed(MakeSamples(MaxSamples, cond),
                        MakeGenes(MaxSamples, MaxGenes, first), MaxRuns)

NextPlot ==
    \/ Next
    \/ \E r \in DOMAIN runs, plot \in AsyncPlots \cup SyncPlots, contrast \in Contrasts :
           PlotStart(r, plot, contrast)
    \/ \E r \in DOMAIN runs : PlotResume(r)

SpecPlot == InitPlot /\ [][NextPlot]_vars

\* Every scheduled timer eventually fires.
FairSpec == Spec /\ \A r \in 1..MaxRuns : WF_vars(DEResume(r))

\* More genes than performPCA keeps.
WideGeneCount == PcaMaxGenes + 200

\* The engine built from each small dataset and from one of WideGeneCount
\* genes, and its decomposition.
InitPCA ==
    \/ \E n \in 1..MaxSamples, count \in 0..MaxGenes, first \in 0..MaxFirst :
           constructed(MakeSamples(n, [k \in 1..n |-> "Control"]),
                       MakeGenes(n, count, first), 0)
    \/ \E first \in {The({ code \in FirstCodes : \A other \in FirstCodes : code <= other })} :
           constructed(MakeSamples(MaxSamples, [k \in 1..MaxSamples |-> "Control"]),
                       MakeGenes(MaxSamples, WideGeneCount, first), 0)

NextPCA ==
    \/ PerformPCA
    \/ ClearCaches

SpecPCA == InitPCA /\ [][NextPCA]_vars

\* ------------------------------------------------------------------------
\* The AnalysisResults component
\* ------------------------------------------------------------------------

\* The datasets a user uploads one after another: one whose genes fill two
\* batches, one of two genes, and one whose only gene has the same count in
\* every sample.
UiSamples ==
    MakeSamples(MaxSamples, [k \in 1..MaxSamples |-> IF k = 1 THEN "Control" ELSE "Treatment"])

UiDatasets ==
    <<[samples |-> UiSamples,
       geneExpression |-> MakeGenes(MaxSamples, BatchSizeAsync + 1, 6)],
      [samples |-> UiSamples,
       geneExpression |->
           [g \in 1..2 |->
               [geneName |-> GeneNamePool[g],
                samples |-> [name \in {UiSamples[k].name : k \in 1..MaxSamples} |->
                                IF name = UiSamples[g].name THEN Num(2) ELSE Num(1)]]]],
      [samples |-> UiSamples,
       geneExpression |-> <<[geneName |-> "geneA",
                             samples |-> [name \in {UiSamples[k].name : k \in 1..MaxSamples}
                                             |-> Num(1)]]>>]>>

\* Most analyzers made and most runs of the contrast effect in a behaviour.
MaxAnalyzers == 2
MaxRequests == 4

\* new RNASeqAnalyzer(samples, geneExpression).performPCA() throws.
performPCAThrows(data) ==
    \E names \in {[k \in 1..Len(data.samples) |-> data.samples[k].name]} :
    \E vstData \in {vstFresh(normalizeFresh(buildCountMatrix(data.geneExpression, names),
                                            Len(data.samples)))} :
    \E top \in {topVariableGenes(vstData)} :
        decompositionThrows(transposeMatrix([k \in 1..Len(top) |-> vstData[top[k].index]]),
                            data.samples)

\* What generateVolcanoPlotAsync or generateMAPlotAsync of an analyzer built
\* from a dataset resolves to for a contrast.
plotData(data, contrast, plot) ==
    The({ [g \in 1..Len(data.geneExpression) |->
              IF plot \in MAPlots
              THEN maPoint(geneResult(data.geneExpression[g], g, normalized, names,
                                      group[1], group[2]), g, normalized)
              ELSE volcanoPoint(geneResult(data.geneExpression[g], g, normalized, names,
                                           group[1], group[2]))] :
          names \in {[k \in 1..Len(data.samples) |-> data.samples[k].name]},
          normalized \in {normalizeFresh(
                              buildCountMatrix(data.geneExpression,
                                  [k \in 1..Len(data.samples) |-> data.samples[k].name]),
                              Len(data.samples))},
          group \in {<<groupSamples(data.samples, contrast.trait, contrast.group1),
                       groupSamples(data.samples, contrast.trait, contrast.group2)>>} })

\* performAnalysis: a new analyzer is set, then the decomposition runs; only
\* when it returns are the PCA points delivered and analysisComplete set.
performAnalysis(c) ==
    LET id == Len(c.analyzers) + 1
        made == [c EXCEPT !.analyzers = Append(@, c.dataset),
                          !.analyzer = id,
                          !.error = FALSE]
    IN IF performPCAThrows(UiDatasets[c.dataset])
       THEN [made EXCEPT !.error = TRUE]
       ELSE [made EXCEPT !.pcaBy = id, !.analysisComplete = TRUE]

\* The effect on [samples, geneExpression].
dataEffect(c) ==
    IF c.dataset # 0
          /\ Len(UiDatasets[c.dataset].samples) > 0
          /\ Len(UiDatasets[c.dataset].geneExpression) > 0
    THEN performAnalysis(c)
    ELSE [c EXCEPT !.analysisComplete = FALSE, !.analyzer = 0]

\* onVolcanoDataGenerated([]) and onMADataGenerated([]) by run `id` of the
\* contrast effect, which ends there.
clearPlots(c) ==
    LET id == Len(c.requests) + 1
    IN [c EXCEPT !.requests = Append(@, [analyzer |-> c.analyzer,
                                         contrast |-> c.currentContrast,
                                         stage |-> "cleared", i |-> 0]),
                 !.volcanoData = [by |-> id, data |-> <<>>],
                 !.maData = [by |-> id, data |-> <<>>]]

\* generateContrastSpecificPlots up to its first await: the checks, then
\* generateVolcanoPlotAsync, whose run computes its first batch and sets a
\* timer.
generateContrastSpecificPlots(c) ==
    IF c.analyzer = 0 \/ c.currentContrast = NoContrast THEN clearPlots(c)
    ELSE IF \/ Len(groupSamples(UiDatasets[c.dataset].samples,
                                c.currentContrast.trait, c.currentContrast.group1)) = 0
            \/ Len(groupSamples(UiDatasets[c.dataset].samples,
                                c.currentContrast.trait, c.currentContrast.group2)) = 0
    THEN clearPlots(c)
    ELSE [c EXCEPT !.requests = Append(@, [analyzer |-> c.analyzer,
                                           contrast |-> c.currentContrast,
                                           stage |-> "volcano", i |-> 0]),
                   !.timers = Append(@, Len(c.requests) + 1)]

\* The effect on [currentContrast, analyzer, analysisComplete].
contrastEffect(c) ==
    IF c.analyzer # 0 /\ c.analysisComplete
    THEN generateContrastSpecificPlots(c)
    ELSE clearPlots(c)

notItsOwn == <<engineInputs, normalizedCountsCache, vstDataCache, runs, lastCall>>

\* handleDataUpload: the first upload renders the component, whose two
\* effects run with the state of the first render and whose contrast effect
\* runs again for the analyzer set meanwhile; a later upload changes the
\* props of the rendered component.
UploadData(d) ==
    /\ Len(analysisResults.analyzers) < MaxAnalyzers
    /\ Len(analysisResults.requests) + 2 <= MaxRequests
    /\ \E props \in {[analysisResults EXCEPT !.mounted = TRUE, !.dataset = d]} :
          analysisResults' =
              IF analysisResults.mounted
              THEN contrastEffect(dataEffect(props))
              ELSE contrastEffect(
                       The({ [analysed EXCEPT !.requests = first.requests,
                                              !.volcanoData = first.volcanoData,
                                              !.maData = first.maData] :
                             analysed \in {dataEffect(props)},
                             first \in {clearPlots(props)} }))
    /\ UNCHANGED notItsOwn

\* handleContrastChange: a new currentContrast object, so the contrast
\* effect of a rendered component runs.
ChangeContrast(contrast) ==
    /\ Len(analysisResults.requests) < MaxRequests
    /\ \E props \in {[analysisResults EXCEPT !.currentContrast = contrast]} :
          analysisResults' = IF props.mounted THEN contrastEffect(props) ELSE props
    /\ UNCHANGED notItsOwn

\* The Retry Analysis button, shown while error is set.
RetryAnalysis ==
    /\ analysisResults.mounted
    /\ analysisResults.error
    /\ Len(analysisResults.analyzers) < MaxAnalyzers
    /\ Len(analysisResults.requests) < MaxRequests
    /\ analysisResults' = contrastEffect(performAnalysis(analysisResults))
    /\ UNCHANGED notItsOwn

\* The oldest timer fires (timers of equal delay fire in the order they
\* were set).  Its run goes on with the next batch and sets a timer again;
\* after the last batch of the volcano run the MA run starts, and after the
\* last batch of the MA run both point arrays are delivered.
TimerFires ==
    /\ analysisResults.timers # <<>>
    /\ \E c \in {analysisResults} :
       \E id \in {Head(analysisResults.timers)} :
       \E request \in {analysisResults.requests[Head(analysisResults.timers)]} :
       \E data \in {UiDatasets[analysisResults.analyzers[
                        analysisResults.requests[Head(analysisResults.timers)].analyzer]]} :
          analysisResults' =
              IF request.i + BatchSizeAsync < Len(data.geneExpression)
              THEN [c EXCEPT !.requests[id].i = request.i + BatchSizeAsync,
                             !.timers = Append(Tail(@), id)]
              ELSE IF request.stage = "volcano"
              THEN [c EXCEPT !.requests[id].stage = "ma",
                             !.requests[id].i = 0,
                             !.timers = Append(Tail(@), id)]
              ELSE [c EXCEPT !.requests[id].stage = "delivered",
                             !.timers = Tail(@),
                             !.volcanoData =
                                 [by |-> id,
                                  data |-> plotData(data, request.contrast,
                                                    "generateVolcanoPlotAsync")],
                             !.maData =
                                 [by |-> id,
                                  data |-> plotData(data, request.contrast,
                                                    "generateMAPlotAsync")]]
    /\ UNCHANGED notItsOwn

InitUI == constructed(<<>>, <<>>, 0)

NextUI ==
    \/ \E d \in DOMAIN UiDatasets : UploadData(d)
    \/ \E contrast \in Contrasts : ChangeContrast(contrast)
    \/ RetryAnalysis
    \/ TimerFires

SpecUI == InitUI /\ [][NextUI]_vars

\* ------------------------------------------------------------------------
\* Quality-control metrics
\* ------------------------------------------------------------------------

\* Metrics that count a gene as detected whatever its count.
calculateQCMetricsCountingAll(sampleList, geneList) ==
    LET totalGenes == Len(geneList)
        expressed == SelectSeq(geneList, LAMBDA gene :
                         \E key \in DOMAIN gene.samples : Gt(gene.samples[key], 0))
    IN [totalGenes |-> totalGenes,
        expressedGenes |-> Len(expressed),
        expressionRate |-> Div(Num(Len(expressed)), Num(totalGenes)),
        sampleMetrics |->
            [s \in 1..Len(sampleList) |->
                [sampleName |-> sampleList[s].name,
                 totalCounts |-> Sum([g \in 1..Len(geneList) |->
                                         OrZero(Lookup(geneList[g].samples, sampleList[s].name))]),
                 detectedGenes |-> totalGenes,
                 detectionRate |-> Div(Num(totalGenes), Num(totalGenes))]]]

\* expressedGenes counted from the first supplied sample alone.
calculateQCMetricsFirstSampleOnly(sampleList, geneList) ==
    LET totalGenes == Len(geneList)
        expressed == SelectSeq(geneList, LAMBDA gene :
                         Gt(OrZero(Lookup(gene.samples, sampleList[1].name)), 0))
        detected(s) == SelectSeq(geneList, LAMBDA gene :
                           Gt(OrZero(Lookup(gene.samples, sampleList[s].name)), 0))
    IN [totalGenes |-> totalGenes,
        expressedGenes |-> Len(expressed),
        expressionRate |-> Div(Num(Len(expressed)), Num(totalGenes)),
        sampleMetrics |->
            [s \in 1..Len(sampleList) |->
                [sampleName |-> sampleList[s].name,
                 totalCounts |-> Sum([g \in 1..Len(geneList) |->
                                         OrZero(Lookup(geneList[g].samples, sampleList[s].name))]),
                 detectedGenes |-> Len(detected(s)),
                 detectionRate |-> Div(Num(Len(detected(s))), Num(totalGenes))]]]

calculateQCMetrics(sampleList, geneList) ==
    LET totalGenes == Len(geneList)
        expressed == SelectSeq(geneList, LAMBDA gene :
                         \E key \in DOMAIN gene.samples : Gt(gene.samples[key], 0))
        detected(s) == SelectSeq(geneList, LAMBDA gene :
                           Gt(OrZero(Lookup(gene.samples, sampleList[s].name)), 0))
    IN [totalGenes |-> totalGenes,
        expressedGenes |-> Len(expressed),
        expressionRate |-> Div(Num(Len(expressed)), Num(totalGenes)),
        sampleMetrics |->
            [s \in 1..Len(sampleList) |->
                [sampleName |-> sampleList[s].name,
                 totalCounts |-> Sum([g \in 1..Len(geneList) |->
                                         OrZero(Lookup(geneList[g].samples, sampleList[s].name))]),
                 detectedGenes |-> Len(detected(s)),
                 detectionRate |-> Div(Num(Len(detected(s))), Num(totalGenes))]]]

\* ------------------------------------------------------------------------
\* The engine's helpers, called one at a time
\* ------------------------------------------------------------------------

\* Longest list and largest whole value handed to a helper.
MaxLen == 4
MaxVal == 5

RECURSIVE SeqsUpTo(_, _)
SeqsUpTo(S, n) ==
    IF n = 0 THEN {<<>>}
    ELSE LET shorter == SeqsUpTo(S, n - 1)
         IN shorter \cup { Append(q, x) : q \in { t \in shorter : Len(t) = n - 1 }, x \in S }

WholeLists == SeqsUpTo({ Num(k) : k \in 1..MaxVal }, MaxLen) \ {<<>>}

\* Normalized counts for the transform: rows of two counts in steps of 0.05
\* up to MaxVal, and two-by-two matrices of counts about the threshold.
VstStep == 5
FineCounts == { VstStep * k : k \in 0..(MaxVal * (SCALE \div VstStep)) }
ThresholdCounts == { 0, Half - 1, Half, Half + 1 }
VstInputs ==
    { <<<<a, b>>>> : a, b \in FineCounts }
        \cup { <<<<a, b>>, <<c, d>>>> : a, b, c, d \in ThresholdCounts }
        \cup { <<>> }

\* Gene results about the two thresholds of the colour rule: fold changes
\* of -2, -1, -0.99, 0, 0.99, 1, 2 and NaN, adjusted p-values from the least
\* the engine gives (0.001 * 1.1) over 0.05 - 0.0001, 0.05, 0.05 + 0.0001
\* to 1 and NaN.
FoldChanges ==
    { NaN, 0 - Num(2), 0 - FcThreshold, 1 - FcThreshold, 0,
      FcThreshold - 1, FcThreshold, Num(2) }
AdjustedPValues ==
    { NaN, (PFloor * 11) \div 10, PThreshold - 1, PThreshold, PThreshold + 1, PSCALE }
GeneResults ==
    { [geneName |-> "geneA", samples |-> [s1 |-> 1, s2 |-> 3],
       log2FoldChange |-> fc, pValue |-> p, adjustedPValue |-> adj] :
      fc \in FoldChanges, p \in {PFloor, PSCALE}, adj \in AdjustedPValues }

\* The datasets the metrics are computed of: the sample lists and gene lists
\* an engine is built from.
Datasets ==
    { [samples |-> MakeSamples(n, [k \in 1..n |-> "Control"]),
       geneExpression |-> MakeGenes(n, count, first)] :
      n \in 1..MaxSamples, count \in 0..MaxGenes, first \in 0..MaxFirst }

\* The arguments the error function is called with: 0, and quarters on
\* either side of it up to 5.
ErfQuarters == 20
ErfInputs == { (q * PSCALE) \div 4 : q \in (0 - ErfQuarters)..ErfQuarters }

\* An engine with no data, and the helper call about to be made on it.
given(fn, arg) ==
    /\ samples = <<>>
    /\ geneExpression = <<>>
    /\ sampleNames = <<>>
    /\ geneNames = <<>>
    /\ countMatrix = buildCountMatrix(<<>>, <<>>)
    /\ normalizedCountsCache = NullCache
    /\ vstDataCache = NullCache
    /\ runs = <<>>
    /\ lastCall = [op |-> "given", fn |-> fn, arg |-> arg]
    /\ analysisResults = NoComponent

InitPure ==
    \/ \E arr \in WholeLists : given("median", arr)
    \/ \E normalizedCounts \in VstInputs : given("vst", normalizedCounts)
    \/ \E gene \in GeneResults : given("points", gene)
    \/ \E data \in Datasets : given("calculateQCMetrics", data)
    \/ \E x \in ErfInputs : given("erf", x)

\* median(arr): works on a sorted copy, arr itself stays as it was.
Median ==
    /\ lastCall.op = "given"
    /\ lastCall.fn = "median"
    /\ \E arr \in {lastCall.arg} :
          lastCall' = [op |-> "median", arg |-> arr, argAfter |-> arr,
                       ret |-> median(arr)]
    /\ UNCHANGED <<engineInputs, analysisResults, normalizedCountsCache, vstDataCache, runs>>

\* The map varianceStabilizingTransform applies to the normalized counts.
VstMap ==
    /\ lastCall.op = "given"
    /\ lastCall.fn = "vst"
    /\ \E normalizedCounts \in {lastCall.arg} :
          lastCall' = [op |-> "vst", arg |-> normalizedCounts,
                       ret |-> vstFresh(normalizedCounts)]
    /\ UNCHANGED <<engineInputs, analysisResults, normalizedCountsCache, vstDataCache, runs>>

\* The volcano point and the MA point the generators make of one gene
\* result, the MA point over a normalized row of 1 and 3.
PlotPoints ==
    /\ lastCall.op = "given"
    /\ lastCall.fn = "points"
    /\ \E gene \in {lastCall.arg} :
          lastCall' = [op |-> "points", arg |-> gene,
                       volcano |-> volcanoPoint(gene),
                       ma |-> maPoint(gene, 1, <<<<Num(1), Num(3)>>>>)]
    /\ UNCHANGED <<engineInputs, analysisResults, normalizedCountsCache, vstDataCache, runs>>

CalculateQCMetrics ==
    /\ lastCall.op = "given"
    /\ lastCall.fn = "calculateQCMetrics"
    /\ \E data \in {lastCall.arg} :
          lastCall' = [op |-> "calculateQCMetrics", arg |-> data,
                       ret |-> calculateQCMetrics(data.samples, data.geneExpression)]
    /\ UNCHANGED <<engineInputs, analysisResults, normalizedCountsCache, vstDataCache, runs>>

Erf ==
    /\ lastCall.op = "given"
    /\ lastCall.fn = "erf"
    /\ \E x \in {lastCall.arg} :
          lastCall' = [op |-> "erf", arg |-> x, ret |-> erf(x)]
    /\ UNCHANGED <<engineInputs, analysisResults, normalizedCountsCache, vstDataCache, runs>>

NextPure ==
    \/ Median
    \/ VstMap
    \/ PlotPoints
    \/ CalculateQCMetrics
    \/ Erf

SpecPure == InitPure /\ [][NextPure]_vars

\* ------------------------------------------------------------------------
\* Properties
\* ------------------------------------------------------------------------

\* What a call returns when nothing else ever touched the engine: every
\* gene computed on its own, in order, from a fresh normalization.
aloneResults(trait, group1Value, group2Value) ==
    The({ [g \in 1..Len(geneExpression) |->
              geneResult(geneExpression[g], g, fresh, sampleNames,
                         group[1], group[2])] :
          fresh \in {normalizeFresh(countMatrix, Len(samples))},
          group \in {<<groupSamples(samples, trait, group1Value),
                       groupSamples(samples, trait, group2Value)>>} })

resolvedAlone(r) ==
    runs[r].results =
        aloneResults(runs[r].trait, runs[r].group1Value, runs[r].group2Value)

hasEmptyGroup(run) ==
    \/ Len(groupSamples(samples, run.trait, run.group1Value)) = 0
    \/ Len(groupSamples(samples, run.trait, run.group2Value)) = 0

\* C1: a call under whose grouping rule group1Value or group2Value matches
\* no sample rejects before computing anything: it has no result array, the
\* gene records, the count matrix and both caches are as before the call,
\* and a later call with two non-empty groups resolves with what it gives
\* on an engine that never saw the failed call.
C1_EmptyGroupRejectsUntouched ==
    /\ [](\A r \in DOMAIN runs :
            /\ runs[r].status = "rejected" =>
                   ~runs[r].hasResults /\ runs[r].results = <<>>
            /\ (runs[r].status = "resolved"
                  /\ \E q \in DOMAIN runs : runs[q].status = "rejected")
                   => resolvedAlone(r))
    /\ [][\A r \in DOMAIN runs :
            (runs[r].status = "idle" /\ runs'[r].status # "idle" /\ hasEmptyGroup(runs'[r]))
                => /\ runs'[r].status = "rejected"
                   /\ geneExpression' = geneExpression
                   /\ countMatrix' = countMatrix
                   /\ normalizedCountsCache' = normalizedCountsCache
                   /\ vstDataCache' = vstDataCache]_vars

\* A failed call was followed by a call that resolved.
C1_Witness ==
    \E q, r \in DOMAIN runs :
        /\ q < r
        /\ runs[q].status = "rejected"
        /\ runs[r].status = "resolved"
        /\ Len(runs[r].results) > 0

\* C2: when a group of the requested contrast is empty, the failure the
\* caller gets states both group sizes.
C2_FailureStatesGroupSizes ==
    \A r \in DOMAIN runs :
        runs[r].status = "rejected" =>
            runs[r].error.sizes =
                <<Len(runs[r].group1Samples), Len(runs[r].group2Samples)>>

\* C3: the count matrix has one row per gene and one column per sample, in
\* input order, and cell (g, s) is the count the gene's map holds for the
\* name of sample s, or 0 when the map has no such key.
C3_CountMatrixReadsBack ==
    /\ Len(countMatrix) = Len(geneExpression)
    /\ Len(sampleNames) = Len(samples)
    /\ \A s \in 1..Len(samples) : sampleNames[s] = samples[s].name
    /\ \A g \in 1..Len(geneExpression) :
           /\ Len(countMatrix[g]) = Len(samples)
           /\ geneNames[g] = geneExpression[g].geneName
           /\ \A s \in 1..Len(samples) :
                  countMatrix[g][s] =
                      IF sampleNames[s] \in DOMAIN geneExpression[g].samples
                      THEN geneExpression[g].samples[sampleNames[s]]
                      ELSE 0

\* A gene whose map lacks one sample's key and holds a positive count for
\* another.
C3_Witness ==
    \E g \in 1..Len(geneExpression) : \E s, t \in 1..Len(samples) :
        /\ sampleNames[s] \notin DOMAIN geneExpression[g].samples
        /\ sampleNames[t] \in DOMAIN geneExpression[g].samples
        /\ countMatrix[g][t] > 0
        /\ countMatrix[g][s] = 0

freshNormalized == normalizeFresh(countMatrix, Len(samples))
freshVst == vstFresh(freshNormalized)

startsRun == \E r \in DOMAIN runs :
                 runs[r].status = "idle" /\ runs'[r].status \in {"suspended", "resolved"}

\* C4: each cache is empty or holds the matrix a fresh computation from
\* the count matrix gives; a cache is filled by the first operation that
\* needs it and by nothing else, emptied by clearCaches and by nothing else,
\* and normalizeCountsDESeq2 and varianceStabilizingTransform return the
\* same matrix call after call.
C4_CachesLazyAndExact ==
    /\ [](/\ ~normalizedCountsCache.isNull => normalizedCountsCache.value = freshNormalized
          /\ ~vstDataCache.isNull => vstDataCache.value = freshVst
          /\ lastCall.op = "normalizeCountsDESeq2" => lastCall.ret = freshNormalized
          /\ lastCall.op = "varianceStabilizingTransform" => lastCall.ret = freshVst)
    /\ [][/\ (normalizedCountsCache.isNull /\ ~normalizedCountsCache'.isNull)
                 => (NormalizeCountsDESeq2 \/ VarianceStabilizingTransform
                        \/ PerformPCA \/ startsRun)
          /\ (vstDataCache.isNull /\ ~vstDataCache'.isNull)
                 => (VarianceStabilizingTransform \/ PerformPCA)
          /\ (NormalizeCountsDESeq2 \/ VarianceStabilizingTransform
                 \/ PerformPCA \/ startsRun) => ~normalizedCountsCache'.isNull
          /\ (VarianceStabilizingTransform \/ PerformPCA) => ~vstDataCache'.isNull
          /\ (~normalizedCountsCache.isNull /\ normalizedCountsCache'.isNull) => ClearCaches
          /\ (~vstDataCache.isNull /\ vstDataCache'.isNull) => ClearCaches
          /\ (~normalizedCountsCache.isNull /\ ~normalizedCountsCache'.isNull)
                 => normalizedCountsCache'.value = normalizedCountsCache.value
          /\ (~vstDataCache.isNull /\ ~vstDataCache'.isNull)
                 => vstDataCache'.value = vstDataCache.value]_vars

\* The transform was returned from a filled cache that differs from the
\* normalized matrix, which differs from the counts.
C4_Witness ==
    /\ lastCall.op = "varianceStabilizingTransform"
    /\ ~vstDataCache.isNull
    /\ ~normalizedCountsCache.isNull
    /\ lastCall.ret = vstDataCache.value
    /\ vstDataCache.value # normalizedCountsCache.value
    /\ normalizedCountsCache.value # countMatrix
    /\ \E r \in DOMAIN runs : runs[r].status = "resolved"

\* C5: the result of a call is computed from the normalized matrix and the
\* grouping of that call alone, whatever calls came before it or run beside
\* it with other groupings.
C5_ResultsOfOwnGrouping ==
    \A r \in DOMAIN runs :
        /\ runs[r].status = "resolved" => resolvedAlone(r)
        /\ runs[r].status \in {"suspended", "resolved"} =>
               /\ runs[r].group1Samples =
                      groupSamples(samples, runs[r].trait, runs[r].group1Value)
               /\ runs[r].group2Samples =
                      groupSamples(samples, runs[r].trait, runs[r].group2Value)
               /\ runs[r].normalizedCounts = freshNormalized

\* Two calls with different groupings resolved with different results.
C5_Witness ==
    \E q, r \in DOMAIN runs :
        /\ q < r
        /\ runs[q].status = "resolved"
        /\ runs[r].status = "resolved"
        /\ runs[q].trait # runs[r].trait
        /\ runs[q].results # runs[r].results
        /\ \E g \in 1..Len(runs[r].results) : IsFinite(runs[r].results[g].pValue)

\* The unbatched computation: gene g on its own.
unbatched(run, fresh, g) ==
    geneResult(geneExpression[g], g, fresh, sampleNames,
               groupSamples(samples, run.trait, run.group1Value),
               groupSamples(samples, run.trait, run.group2Value))

\* C6: for any number of genes the batched runs of both methods return one
\* result per gene, result g being input gene g extended with the values
\* the unbatched computation gives for gene g; while a run is suspended its
\* results are that sequence up to the end of the batch it yielded after.
C6_BatchingKeepsValuesAndOrder ==
    \A r \in DOMAIN runs : \A fresh \in {freshNormalized} :
        /\ runs[r].status = "resolved" =>
               /\ Len(runs[r].results) = Len(geneExpression)
               /\ \A g \in 1..Len(geneExpression) :
                      /\ runs[r].results[g] = unbatched(runs[r], fresh, g)
                      /\ runs[r].results[g].geneName = geneExpression[g].geneName
                      /\ runs[r].results[g].samples = geneExpression[g].samples
        /\ runs[r].status = "suspended" =>
               /\ Len(runs[r].results) =
                      IF runs[r].i + batchSize(runs[r].method) < Len(geneExpression)
                      THEN runs[r].i + batchSize(runs[r].method)
                      ELSE Len(geneExpression)
               /\ \A g \in 1..Len(runs[r].results) :
                      runs[r].results[g] = unbatched(runs[r], fresh, g)

\* A run resolved over a gene list longer than a batch and not a whole
\* number of batches.
C6_Witness ==
    \E r \in DOMAIN runs :
        /\ runs[r].status = "resolved"
        /\ runs[r].method = "performDifferentialExpression"
        /\ Len(geneExpression) > BatchSizeSync
        /\ Len(geneExpression) % BatchSizeSync # 0
        /\ Len(runs[r].results) = Len(geneExpression)
        /\ runs[r].results[1] # runs[r].results[BatchSizeSync + 1]

\* C7: a run that passed the group check resolves with the full result once
\* its timers have fired; while it is suspended no operation of the engine
\* settles it, rejects it or touches what it computes from.
C7_RunsToCompletion ==
    /\ \A r \in 1..MaxRuns :
           (runs[r].status = "suspended") ~> (runs[r].status = "resolved")
    /\ [](\A r \in DOMAIN runs :
             runs[r].status = "resolved" =>
                 Len(runs[r].results) = Len(geneExpression) /\ resolvedAlone(r))
    /\ [][\A r \in DOMAIN runs :
             runs[r].status = "suspended" =>
                 \/ runs'[r] = runs[r]
                 \/ /\ runs'[r].status \in {"suspended", "resolved"}
                    /\ runs'[r].normalizedCounts = runs[r].normalizedCounts
                    /\ runs'[r].group1Samples = runs[r].group1Samples
                    /\ runs'[r].group2Samples = runs[r].group2Samples
                    /\ DEResume(r)]_vars

\* One call has resolved and a later one is suspended with the caches
\* cleared beneath it.
C7_Witness ==
    \E q, r \in DOMAIN runs :
        /\ q < r
        /\ runs[q].status = "resolved"
        /\ Len(runs[q].results) > 0
        /\ runs[r].status = "suspended"
        /\ normalizedCountsCache.isNull
        /\ lastCall.op = "clearCaches"

\* C8: no operation changes the count matrix, the sample names, the gene
\* names or their order.
C8_InputsNeverChange ==
    [][/\ countMatrix' = countMatrix
       /\ sampleNames' = sampleNames
       /\ geneNames' = geneNames
       /\ samples' = samples
       /\ geneExpression' = geneExpression]_vars

\* Every kind of operation has run: the decomposition last, a run resolved,
\* an MA plot generated after the caches were cleared beneath it.
C8_Witness ==
    /\ lastCall.op = "performPCA"
    /\ Len(lastCall.ret) > 0
    /\ ~vstDataCache.isNull
    /\ \E q, r \in DOMAIN runs :
           /\ runs[q].plot = "none"
           /\ runs[q].status = "resolved"
           /\ runs[r].plot = "generateMAPlotAsync"
           /\ runs[r].outcome = "resolved"
           /\ Len(runs[r].points) = Len(geneExpression)
    /\ countMatrix = buildCountMatrix(geneExpression, sampleNames)
    /\ Len(countMatrix) > 1

\* C9: every gene of every run has a pValue in [0.001, 1] and an
\* adjustedPValue in [0, 1], neither of them NaN.
C9_PValuesInRange ==
    \A r \in DOMAIN runs : \A g \in 1..Len(runs[r].results) :
        /\ IsFinite(runs[r].results[g].pValue)
        /\ runs[r].results[g].pValue >= PFloor
        /\ runs[r].results[g].pValue <= PSCALE
        /\ IsFinite(runs[r].results[g].adjustedPValue)
        /\ runs[r].results[g].adjustedPValue >= 0
        /\ runs[r].results[g].adjustedPValue <= PSCALE

sizeFactorsNow ==
    calculateSizeFactors(countMatrix, Len(samples), calculateGeometricMeans(countMatrix))

hasAllPositiveGene ==
    \E g \in 1..Len(countMatrix) : \A s \in 1..Len(samples) : countMatrix[g][s] > 0

\* C10: when some gene has a positive count in every sample, every sample's
\* size factor is finite and strictly positive, and so is finite every cell
\* normalization derives from them.
C10_SizeFactorsPositive ==
    hasAllPositiveGene =>
        \A sizeFactors \in {sizeFactorsNow} :
            /\ Len(sizeFactors) = Len(samples)
            /\ \A s \in 1..Len(samples) :
                   IsFinite(sizeFactors[s]) /\ sizeFactors[s] > 0
            /\ ~normalizedCountsCache.isNull =>
                   \A g \in 1..Len(countMatrix) : \A s \in 1..Len(samples) :
                       /\ IsFinite(normalizedCountsCache.value[g][s])
                       /\ normalizedCountsCache.value[g][s] =
                              Div(countMatrix[g][s], sizeFactors[s])

\* Normalization ran on a dataset with an all-positive gene and samples of
\* different size factors.
C10_Witness ==
    /\ hasAllPositiveGene
    /\ ~normalizedCountsCache.isNull
    /\ lastCall.op = "normalizeCountsDESeq2"
    /\ \E s, t \in 1..Len(samples) : sizeFactorsNow[s] # sizeFactorsNow[t]
    /\ \E g \in 1..Len(countMatrix) : \E s \in 1..Len(samples) : countMatrix[g][s] = 0

\* C11: every cell of the normalized matrix is a finite number, on every
\* input.
C11_NormalizedFinite ==
    /\ ~normalizedCountsCache.isNull =>
           \A g \in 1..Len(normalizedCountsCache.value) :
               \A s \in 1..Len(normalizedCountsCache.value[g]) :
                   IsFinite(normalizedCountsCache.value[g][s])
    /\ lastCall.op = "normalizeCountsDESeq2" =>
           \A g \in 1..Len(lastCall.ret) : \A s \in 1..Len(lastCall.ret[g]) :
               IsFinite(lastCall.ret[g][s])

\* The k-th smallest entry of a list, by counting.
kthSmallest(arr, k) ==
    CHOOSE v \in { arr[i] : i \in 1..Len(arr) } :
        /\ Cardinality({ i \in 1..Len(arr) : arr[i] < v }) < k
        /\ Cardinality({ i \in 1..Len(arr) : arr[i] <= v }) >= k

\* C12: the median of a non-empty list is the middle entry of the list in
\* numerical order when the length is odd and the mean of the two middle
\* entries when it is even, whatever the order of the input, and the input
\* list is left as it was.
C12_MedianOfSorted ==
    lastCall.op = "median" =>
        /\ lastCall.argAfter = lastCall.arg
        /\ \A n \in {Len(lastCall.arg)} :
               IF n % 2 = 1
               THEN lastCall.ret = kthSmallest(lastCall.arg, (n + 1) \div 2)
               ELSE 2 * lastCall.ret =
                        kthSmallest(lastCall.arg, n \div 2)
                            + kthSmallest(lastCall.arg, n \div 2 + 1)
        /\ lastCall.arg = <<Num(1), Num(2), Num(3), Num(4)>> => 2 * lastCall.ret = Num(5)
        /\ lastCall.arg = <<Num(1), Num(3), Num(5)>> => lastCall.ret = Num(3)

\* The median of 4, 1, 3, 2 was taken: 2.5.
C12_Witness ==
    /\ lastCall.op = "median"
    /\ lastCall.arg = <<Num(4), Num(1), Num(3), Num(2)>>
    /\ 2 * lastCall.ret = Num(5)

\* C13: the transform has the shape of the normalized matrix; a cell is 0
\* when its count is below 0.5 and never negative; of two counts the larger
\* never gets the smaller output, also across 0.5; equal counts get equal
\* outputs wherever they stand.
C13_VstElementwiseMonotone ==
    lastCall.op = "vst" =>
        /\ Len(lastCall.ret) = Len(lastCall.arg)
        /\ \A g \in 1..Len(lastCall.arg) :
               /\ Len(lastCall.ret[g]) = Len(lastCall.arg[g])
               /\ \A s \in 1..Len(lastCall.arg[g]) :
                      /\ lastCall.ret[g][s] >= 0
                      /\ lastCall.arg[g][s] < Half => lastCall.ret[g][s] = 0
                      /\ \A h \in 1..Len(lastCall.arg) : \A t \in 1..Len(lastCall.arg[h]) :
                             lastCall.arg[g][s] <= lastCall.arg[h][t]
                                 => lastCall.ret[g][s] <= lastCall.ret[h][t]

\* Counts on both sides of the threshold were transformed.
C13_Witness ==
    /\ lastCall.op = "vst"
    /\ lastCall.arg = <<<<Half - VstStep, Num(2)>>>>
    /\ lastCall.ret[1][1] = 0
    /\ lastCall.ret[1][2] > Num(1)

\* C15: performPCA returns one point per sample in sample order; point i
\* has the name of sample i as label, sample i as metadata and the scores of
\* row i of the matrix handed to the decomposition, and that row holds the
\* transformed counts of sample i for the genes kept, however they were
\* ranked.
C15_OnePointPerSampleInOrder ==
    lastCall.op = "performPCA" =>
        /\ lastCall.outcome = "returned"
        /\ Len(lastCall.pcaData) = Len(samples)
        /\ \A i \in 1..Len(samples) :
               /\ lastCall.pcaData[i].label = samples[i].name
               /\ lastCall.pcaData[i].metadata = samples[i]
               /\ lastCall.pcaData[i].x = score(i - 1, 0)
               /\ lastCall.pcaData[i].y = score(i - 1, 1)
        /\ Len(lastCall.ret) > 0 =>
               /\ Len(lastCall.transposedData) = Len(samples)
               /\ \A i \in 1..Len(samples) :
                      Len(lastCall.transposedData[i]) = Len(lastCall.ret)
               /\ \A k \in 1..Len(lastCall.ret) :
                      \E g \in 1..Len(geneExpression) : \A i \in 1..Len(samples) :
                          lastCall.transposedData[i][k] = vstDataCache.value[g][i]

\* The colour the rule of the claim gives.
significanceColour(log2FC, adjPValue) ==
    IF IsFinite(log2FC) /\ IsFinite(adjPValue) /\ log2FC >= Num(1)
           /\ 100 * adjPValue < 5 * PSCALE
    THEN "#F97316"
    ELSE IF IsFinite(log2FC) /\ IsFinite(adjPValue) /\ log2FC <= 0 - Num(1)
           /\ 100 * adjPValue < 5 * PSCALE
    THEN "#2563EB"
    ELSE "#6B7280"

\* C16: a gene is coloured up iff log2FoldChange >= 1 and adjustedPValue <
\* 0.05, down iff log2FoldChange <= -1 and adjustedPValue < 0.05, gray
\* otherwise, whatever its pValue; its volcano point and its MA point carry
\* that colour.
C16_ColourBySignificance ==
    lastCall.op = "points" =>
        /\ lastCall.volcano.color =
               significanceColour(lastCall.arg.log2FoldChange, lastCall.arg.adjustedPValue)
        /\ lastCall.ma.color = lastCall.volcano.color

\* A gene with a fold change of exactly 1 just below the p threshold was
\* coloured up.
C16_Witness ==
    /\ lastCall.op = "points"
    /\ lastCall.arg.log2FoldChange = Num(1)
    /\ lastCall.arg.adjustedPValue = PThreshold - 1
    /\ lastCall.volcano.color = "#F97316"
    /\ lastCall.ma.color = "#F97316"

\* The mean of gene g's normalized counts over the samples of a group,
\* floored at 0.1.
flooredMean(g, group) ==
    LET total == Sum([k \in 1..Len(group) |->
                         freshNormalized[g][IndexOf(sampleNames, group[k].name)]])
        mean == DivLen(total, Len(group))
    IN IF IsFinite(mean) /\ 10 * mean < SCALE THEN SCALE \div 10 ELSE mean

rowFinite(g) == \A s \in 1..Len(samples) : IsFinite(freshNormalized[g][s])

\* C17: a gene's log2FoldChange is positive iff the floored mean of group 2
\* exceeds that of group 1, negative iff it is smaller, 0 when the two are
\* equal, and it is a finite number whenever the gene's normalized counts
\* are.
C17_FoldChangeSign ==
    \A r \in DOMAIN runs : \A g \in 1..Len(runs[r].results) :
        \A m1 \in {flooredMean(g, runs[r].group1Samples)},
           m2 \in {flooredMean(g, runs[r].group2Samples)},
           fc \in {runs[r].results[g].log2FoldChange} :
            rowFinite(g) =>
                /\ IsFinite(fc)
                /\ fc > 0 <=> m2 > m1
                /\ fc < 0 <=> m2 < m1
                /\ fc = 0 <=> m2 = m1

\* A run gave one gene a positive fold change and another a negative one.
C17_Witness ==
    \E r \in DOMAIN runs : \E g, h \in 1..Len(runs[r].results) :
        /\ runs[r].status = "resolved"
        /\ rowFinite(g) /\ rowFinite(h)
        /\ runs[r].results[g].log2FoldChange > MeanFloor
        /\ runs[r].results[h].log2FoldChange < 0

\* The count a gene record holds for a sample, 0 when it holds none.
countOf(gene, sample) ==
    IF sample.name \in DOMAIN gene.samples THEN gene.samples[sample.name] ELSE 0

C19_ErfOfZeroIsZero ==
    (lastCall.op = "erf" /\ lastCall.arg = 0) => lastCall.ret = 0


\* The most genes processed between two suspension points of a method.
genesBetweenYields(method) ==
    IF method = "performDifferentialExpression" THEN 500 ELSE 50

\* The batch starts after which a method yields.
yieldStarts(method) ==
    IF method = "performDifferentialExpression"
    THEN { 500 * k : k \in 0..(Len(geneExpression) \div 500) }
    ELSE { 50 * k : k \in 0..(Len(geneExpression) \div 50) }

\* A run that waits on a timer does so after a whole batch whose results it
\* has already appended.
suspendedAfterBatch(run) ==
    run.status = "suspended" =>
        /\ run.i \in yieldStarts(run.method)
        /\ run.i < Len(geneExpression)
        /\ Len(run.results) =
               MathMin(run.i + (IF run.method = "performDifferentialExpression"
                                THEN 100 ELSE 50),
                       Len(geneExpression))

\* C20: a differential-expression run is suspended only at the yield after
\* a batch, with that batch's results appended; the asynchronous method
\* yields after every batch and the other after the batches starting at
\* gene 0, 500, 1000, ..., so that from one suspension point to the next, or
\* to the end, at most 50 and at most 500 genes are processed.
C20_YieldsAfterBatches ==
    [][\A r \in DOMAIN runs :
          /\ suspendedAfterBatch(runs'[r])
          /\ runs'[r] # runs[r] /\ runs'[r].status \in {"suspended", "resolved"} =>
                /\ Len(runs'[r].results) - Len(runs[r].results)
                       \in 0..genesBetweenYields(runs'[r].method)
                /\ runs[r].status = "suspended" /\ runs'[r].status = "suspended" =>
                       runs'[r].i = runs[r].i + genesBetweenYields(runs[r].method)
                /\ runs[r].status = "suspended" /\ runs'[r].status = "resolved" =>
                       Len(geneExpression) <= runs[r].i + genesBetweenYields(runs[r].method)]_vars

\* Both methods have reached their yield after the batch that starts at
\* gene 500, the one 50 genes and the other 500 genes after its last yield.
C20_Witness ==
    /\ Len(runs) > 1
    /\ runs[1].status = "suspended"
    /\ runs[1].method = "performDifferentialExpression"
    /\ runs[1].i = 500
    /\ Len(runs[1].results) = 600
    /\ runs[2].status = "suspended"
    /\ runs[2].method = "performDifferentialExpressionAsync"
    /\ runs[2].i = 500
    /\ Len(runs[2].results) = 550


\* The gene results of every run that has resolved.
resolvedResults ==
    { runs[r].results[g] : r \in { q \in DOMAIN runs : runs[q].status = "resolved" },
                           g \in 1..Len(geneExpression) }

\* C21: the adjustedPValue of a gene is min(1.0, 1.1 * pValue) of its own
\* pValue: it is never below the pValue, and genes with equal pValue have
\* equal adjustedPValue, whatever their place and the other genes' p-values.
C21_AdjustedFromOwnPValue ==
    \A gene \in resolvedResults :
        /\ gene.pValue = NaN => gene.adjustedPValue = NaN
        /\ gene.pValue # NaN =>
               /\ 10 * gene.adjustedPValue <= 11 * gene.pValue
               /\ 10 * gene.adjustedPValue > 11 * gene.pValue - 10
                     \/ gene.adjustedPValue = PSCALE
               /\ gene.adjustedPValue <= PSCALE
               /\ gene.adjustedPValue >= gene.pValue
        /\ \A other \in resolvedResults :
               other.pValue = gene.pValue => other.adjustedPValue = gene.adjustedPValue

\* One run has resolved with a gene whose pValue is 1 and a gene whose
\* pValue is below 1 and below its adjustedPValue.
C21_Witness ==
    \E r \in DOMAIN runs :
        /\ runs[r].status = "resolved"
        /\ \E g, h \in 1..Len(runs[r].results) :
              /\ runs[r].results[g].pValue = PSCALE
              /\ runs[r].results[g].adjustedPValue = PSCALE
              /\ runs[r].results[h].pValue # NaN
              /\ runs[r].results[h].pValue < PSCALE
              /\ runs[r].results[h].adjustedPValue > runs[r].results[h].pValue


C23_ZeroVarianceNeverFails ==
    (lastCall.op = "performPCA" /\ Len(samples) >= 1 /\ Len(geneExpression) >= 1) =>
        /\ lastCall.outcome = "returned"
        /\ Len(lastCall.pcaData) = Len(samples)
        /\ \A i \in 1..Len(samples) :
               /\ lastCall.pcaData[i].x = score(i - 1, 0)
               /\ lastCall.pcaData[i].y = score(i - 1, 1)


\* The asynchronous generator a synchronous one stands for.
asyncOf(plot) ==
    IF plot = "generateVolcanoPlot" THEN "generateVolcanoPlotAsync" ELSE "generateMAPlotAsync"

\* C24: for a grouping with two non-empty groups, generateVolcanoPlot and
\* generateMAPlot return the point arrays that generateVolcanoPlotAsync and
\* generateMAPlotAsync resolve to.
C24_SyncPlotsEqualAsync ==
    \A r \in DOMAIN runs :
        (/\ runs[r].plot \in SyncPlots
         /\ Len(runs[r].group1Samples) > 0
         /\ Len(runs[r].group2Samples) > 0) =>
            /\ runs[r].outcome = "returned"
            /\ \A q \in DOMAIN runs :
                   (/\ runs[q].plot = asyncOf(runs[r].plot)
                    /\ runs[q].outcome = "resolved"
                    /\ runs[q].trait = runs[r].trait
                    /\ runs[q].group1Value = runs[r].group1Value
                    /\ runs[q].group2Value = runs[r].group2Value) =>
                       runs[q].points = runs[r].points


\* C25: in every reachable state a filled VST cache comes with a filled
\* normalized-counts cache, and the cached VST matrix is the transform of
\* the cached normalized matrix.
C25_VstCacheFollowsNormalized ==
    ~vstDataCache.isNull =>
        /\ ~normalizedCountsCache.isNull
        /\ Len(vstDataCache.value) = Len(normalizedCountsCache.value)
        /\ \A g \in 1..Len(vstDataCache.value) :
               /\ Len(vstDataCache.value[g]) = Len(normalizedCountsCache.value[g])
               /\ \A s \in 1..Len(vstDataCache.value[g]) :
                      vstDataCache.value[g][s] = vstCell(normalizedCountsCache.value[g][s])

\* Both caches were emptied and filled again by the decomposition while a
\* run was waiting on its timer.
C25_Witness ==
    /\ lastCall.op = "performPCA"
    /\ ~vstDataCache.isNull
    /\ vstDataCache.value # normalizedCountsCache.value
    /\ \E r \in DOMAIN runs :
           /\ runs[r].status = "suspended"
           /\ runs[r].normalizedCounts = normalizedCountsCache.value


\* The points a generator resolves to when nothing else touches the engine.
alonePoints(run) ==
    The({ [g \in 1..Len(results) |->
              IF run.plot \in MAPlots
              THEN maPoint(results[g], g, normalizeFresh(countMatrix, Len(samples)))
              ELSE volcanoPoint(results[g])] :
          results \in {aloneResults(run.trait, run.group1Value, run.group2Value)} })

\* C26: runs interleaved at their yields, with the caches cleared at any
\* yield, resolve with the results and the points they give when run alone;
\* a step of one run leaves the other runs as they are, and whoever fills
\* the normalized-counts cache fills it with the same matrix.
C26_InterleavedRunsAsAlone ==
    /\ [](\A r \in DOMAIN runs :
             /\ runs[r].status = "resolved" => resolvedAlone(r)
             /\ runs[r].outcome = "resolved" => runs[r].points = alonePoints(runs[r]))
    /\ [](~normalizedCountsCache.isNull =>
             normalizedCountsCache.value = normalizeFresh(countMatrix, Len(samples)))
    /\ [][\A q, r \in DOMAIN runs :
             (q # r /\ runs'[q] # runs[q]) => runs'[r] = runs[r]]_vars

\* A run started after a generator has resolved while the generator is
\* still waiting, and the caches have been cleared beneath both.
C26_Witness ==
    \E q, r \in DOMAIN runs :
        /\ q < r
        /\ runs[q].plot = "generateMAPlotAsync"
        /\ runs[q].outcome = "pending"
        /\ runs[r].plot = "none"
        /\ runs[r].status = "resolved"
        /\ Len(runs[r].results) > 0
        /\ runs[r].trait # runs[q].trait
        /\ normalizedCountsCache.isNull
        /\ lastCall.op = "clearCaches"


\* C27: once the contrast effect's latest run has delivered, the volcano
\* and MA data last delivered are its own: no run for an older contrast or
\* an older dataset has delivered after it.
C27_LatestRunDeliversLast ==
    \A latest \in {Len(analysisResults.requests)} :
        (latest > 0 /\ analysisResults.requests[latest].stage \in {"cleared", "delivered"}) =>
            /\ analysisResults.volcanoData.by = latest
            /\ analysisResults.maData.by = latest

\* C28: analysisComplete is true only if the latest performAnalysis run
\* finished without error, and no plot run is made with an analyzer whose
\* analysis failed.
C28_CompleteOnlyAfterSuccess ==
    /\ analysisResults.analysisComplete =>
           /\ ~analysisResults.error
           /\ analysisResults.pcaBy = analysisResults.analyzer
    /\ \A r \in 1..Len(analysisResults.requests) :
           analysisResults.requests[r].stage # "cleared" =>
               ~performPCAThrows(
                    UiDatasets[analysisResults.analyzers[analysisResults.requests[r].analyzer]])


\* Pairs of resolved runs whose calls differ by swapping the two group
\* values.
swappedRuns ==
    { pair \in (DOMAIN runs) \X (DOMAIN runs) :
        /\ runs[pair[1]].status = "resolved"
        /\ runs[pair[2]].status = "resolved"
        /\ runs[pair[1]].trait = runs[pair[2]].trait
        /\ runs[pair[1]].group1Value = runs[pair[2]].group2Value
        /\ runs[pair[1]].group2Value = runs[pair[2]].group1Value }

C30_QCMetricsOrdered ==
    (lastCall.op = "calculateQCMetrics" /\ Len(lastCall.arg.geneExpression) >= 1) =>
        \A metrics \in {lastCall.ret} :
            /\ metrics.expressedGenes <= metrics.totalGenes
            /\ IsFinite(metrics.expressionRate)
            /\ metrics.expressionRate <= Num(1)
            /\ \A s \in 1..Len(metrics.sampleMetrics) :
                   /\ 0 <= metrics.sampleMetrics[s].detectedGenes
                   /\ metrics.sampleMetrics[s].detectedGenes <= metrics.expressedGenes
                   /\ IsFinite(metrics.sampleMetrics[s].detectionRate)
                   /\ 0 <= metrics.sampleMetrics[s].detectionRate
                   /\ metrics.sampleMetrics[s].detectionRate <= metrics.expressionRate

\* A call on at least two genes where one sample detects fewer genes than
\* are expressed, another detects them all, and one gene is not expressed.
C30_Witness ==
    /\ lastCall.op = "calculateQCMetrics"
    /\ Len(lastCall.arg.geneExpression) >= 2
    /\ lastCall.ret.expressedGenes < lastCall.ret.totalGenes
    /\ \E s \in 1..Len(lastCall.ret.sampleMetrics) :
           lastCall.ret.sampleMetrics[s].detectedGenes < lastCall.ret.expressedGenes
    /\ \E s \in 1..Len(lastCall.ret.sampleMetrics) :
           /\ lastCall.ret.sampleMetrics[s].detectedGenes = lastCall.ret.expressedGenes
           /\ lastCall.ret.sampleMetrics[s].detectionRate > 0

====
